---- MODULE Spec2Model ----
(***************************************************************************)
(* libsyntax/parse/token.rs: the session identifier interner, the keyword  *)
(* and special-identifier registry, and hygienic token equality.           *)
(*                                                                         *)
(* util::interner::StrInterner and ast_util (syntax-context table,         *)
(* new_mark, mtwt_resolve) are used by token.rs but live in other files;   *)
(* they are modelled from their documented contract.                       *)
(***************************************************************************)
EXTENDS Integers, Sequences, FiniteSets, TLC

\* ------------------------------------------------------------------------
\* Bounds
\* ------------------------------------------------------------------------
\* number of interner calls recorded in one behaviour
MaxOps == 3
\* number of syntax-context table entries created in one behaviour
MaxCtxt == 1
\* number of str_to_ident calls in one behaviour of the hygiene specification
MaxIdents == 1

\* strings handed to intern / gensym ("" and "self" are preloaded spellings,
\* "mark" is the seed of fresh_mark, "ghi" is a user identifier)
Strings == {"", "ghi", "mark", "self"}

\* ------------------------------------------------------------------------
\* util::interner::StrInterner  (map: text -> Name, vect: Name -> text)
\* ------------------------------------------------------------------------
StrInterner_new == [map |-> <<>>, vect |-> <<>>]

StrInterner_len(i) == Len(i.vect)

\* returns the existing Name if the text was interned before, otherwise
\* allocates the next Name and records the text
StrInterner_intern(i, val) ==
    IF val \in DOMAIN i.map
    THEN [i |-> i, ret |-> i.map[val]]
    ELSE [i |-> [map |-> i.map @@ (val :> StrInterner_len(i)),
                 vect |-> Append(i.vect, val)],
          ret |-> StrInterner_len(i)]

\* always allocates a new Name; the text is left out of the map
StrInterner_gensym(i, val) ==
    [i |-> [map |-> i.map, vect |-> Append(i.vect, val)],
     ret |-> StrInterner_len(i)]

\* a new Name sharing the text of an existing one
StrInterner_gensym_copy(i, idx) ==
    [i |-> [map |-> i.map, vect |-> Append(i.vect, i.vect[idx + 1])],
     ret |-> StrInterner_len(i)]

StrInterner_get(i, idx) == i.vect[idx + 1]

\* interns entries lo..hi of the list in order (the list is split in halves,
\* and the left half is evaluated first, to keep the evaluation shallow)
RECURSIVE prefill_range(_, _, _, _)
prefill_range(i, init, lo, hi) ==
    IF lo > hi THEN i
    ELSE IF lo = hi THEN StrInterner_intern(i, init[lo]).i
    ELSE LET mid == (lo + hi) \div 2
             left == prefill_range(i, init, lo, mid)
         IN  IF Len(left.vect) >= 0
             THEN prefill_range(left, init, mid + 1, hi)
             ELSE left

\* interns every entry of the list in order, starting from an empty interner
StrInterner_prefill(init) == prefill_range(StrInterner_new, init, 1, Len(init))

\* ------------------------------------------------------------------------
\* token.rs: registry tables
\* ------------------------------------------------------------------------
special_idents == <<
    [ident |-> "underscore",             name |-> 0,  text |-> "_"],
    [ident |-> "anon",                   name |-> 1,  text |-> "anon"],
    [ident |-> "invalid",                name |-> 2,  text |-> ""],
    [ident |-> "unary",                  name |-> 3,  text |-> "unary"],
    [ident |-> "not_fn",                 name |-> 4,  text |-> "!"],
    [ident |-> "idx_fn",                 name |-> 5,  text |-> "[]"],
    [ident |-> "unary_minus_fn",         name |-> 6,  text |-> "unary-"],
    [ident |-> "clownshoes_extensions",  name |-> 7,  text |-> "__extensions__"],
    [ident |-> "self_",                  name |-> 8,  text |-> "self"],
    [ident |-> "item",                   name |-> 9,  text |-> "item"],
    [ident |-> "block",                  name |-> 10, text |-> "block"],
    [ident |-> "stmt",                   name |-> 11, text |-> "stmt"],
    [ident |-> "pat",                    name |-> 12, text |-> "pat"],
    [ident |-> "expr",                   name |-> 13, text |-> "expr"],
    [ident |-> "ty",                     name |-> 14, text |-> "ty"],
    [ident |-> "ident",                  name |-> 15, text |-> "ident"],
    [ident |-> "path",                   name |-> 16, text |-> "path"],
    [ident |-> "tt",                     name |-> 17, text |-> "tt"],
    [ident |-> "matchers",               name |-> 18, text |-> "matchers"],
    [ident |-> "str",                    name |-> 19, text |-> "str"],
    [ident |-> "arg",                    name |-> 20, text |-> "arg"],
    [ident |-> "descrim",                name |-> 21, text |-> "descrim"],
    [ident |-> "clownshoe_abi",          name |-> 22, text |-> "__rust_abi"],
    [ident |-> "clownshoe_stack_shim",   name |-> 23, text |-> "__rust_stack_shim"],
    [ident |-> "main",                   name |-> 24, text |-> "main"],
    [ident |-> "opaque",                 name |-> 25, text |-> "<opaque>"],
    [ident |-> "blk",                    name |-> 26, text |-> "blk"],
    [ident |-> "statik",                 name |-> 27, text |-> "static"],
    [ident |-> "clownshoes_foreign_mod", name |-> 28, text |-> "__foreign_mod__"],
    [ident |-> "unnamed_field",          name |-> 29, text |-> "__field__"],
    [ident |-> "c_abi",                  name |-> 30, text |-> "C"],
    [ident |-> "type_self",              name |-> 31, text |-> "Self"] >>

\* keywords::Keyword with to_ident().name; strict first, then reserved
Keyword == <<
    [kw |-> "As",     name |-> 32, text |-> "as",     strict |-> TRUE],
    [kw |-> "Break",  name |-> 33, text |-> "break",  strict |-> TRUE],
    [kw |-> "Const",  name |-> 34, text |-> "const",  strict |-> TRUE],
    [kw |-> "Do",     name |-> 35, text |-> "do",     strict |-> TRUE],
    [kw |-> "Else",   name |-> 36, text |-> "else",   strict |-> TRUE],
    [kw |-> "Enum",   name |-> 37, text |-> "enum",   strict |-> TRUE],
    [kw |-> "Extern", name |-> 38, text |-> "extern", strict |-> TRUE],
    [kw |-> "False",  name |-> 39, text |-> "false",  strict |-> TRUE],
    [kw |-> "Fn",     name |-> 40, text |-> "fn",     strict |-> TRUE],
    [kw |-> "For",    name |-> 41, text |-> "for",    strict |-> TRUE],
    [kw |-> "If",     name |-> 42, text |-> "if",     strict |-> TRUE],
    [kw |-> "Impl",   name |-> 43, text |-> "impl",   strict |-> TRUE],
    [kw |-> "In",     name |-> 63, text |-> "in",     strict |-> TRUE],
    [kw |-> "Let",    name |-> 44, text |-> "let",    strict |-> TRUE],
    [kw |-> "__Log",  name |-> 45, text |-> "__log",  strict |-> TRUE],
    [kw |-> "Loop",   name |-> 46, text |-> "loop",   strict |-> TRUE],
    [kw |-> "Match",  name |-> 47, text |-> "match",  strict |-> TRUE],
    [kw |-> "Mod",    name |-> 48, text |-> "mod",    strict |-> TRUE],
    [kw |-> "Mut",    name |-> 49, text |-> "mut",    strict |-> TRUE],
    [kw |-> "Once",   name |-> 50, text |-> "once",   strict |-> TRUE],
    [kw |-> "Priv",   name |-> 51, text |-> "priv",   strict |-> TRUE],
    [kw |-> "Pub",    name |-> 52, text |-> "pub",    strict |-> TRUE],
    [kw |-> "Ref",    name |-> 53, text |-> "ref",    strict |-> TRUE],
    [kw |-> "Return", name |-> 54, text |-> "return", strict |-> TRUE],
    [kw |-> "Static", name |-> 27, text |-> "static", strict |-> TRUE],
    [kw |-> "Self",   name |-> 8,  text |-> "self",   strict |-> TRUE],
    [kw |-> "Struct", name |-> 55, text |-> "struct", strict |-> TRUE],
    [kw |-> "Super",  name |-> 56, text |-> "super",  strict |-> TRUE],
    [kw |-> "True",   name |-> 57, text |-> "true",   strict |-> TRUE],
    [kw |-> "Trait",  name |-> 58, text |-> "trait",  strict |-> TRUE],
    [kw |-> "Type",   name |-> 59, text |-> "type",   strict |-> TRUE],
    [kw |-> "Unsafe", name |-> 60, text |-> "unsafe", strict |-> TRUE],
    [kw |-> "Use",    name |-> 61, text |-> "use",    strict |-> TRUE],
    [kw |-> "While",  name |-> 62, text |-> "while",  strict |-> TRUE],
    [kw |-> "Be",     name |-> 64, text |-> "be",     strict |-> FALSE],
    [kw |-> "Pure",   name |-> 65, text |-> "pure",   strict |-> FALSE],
    [kw |-> "Yield",  name |-> 66, text |-> "yield",  strict |-> FALSE] >>

\* the preload list with "in" moved to its alphabetical place (after "impl")
init_vec_in_alphabetical == <<
    "_", "anon", "", "unary", "!", "[]", "unary-", "__extensions__", "self",
    "item", "block", "stmt", "pat", "expr", "ty", "ident", "path", "tt",
    "matchers", "str", "arg", "descrim", "__rust_abi", "__rust_stack_shim",
    "main", "<opaque>", "blk", "static", "__foreign_mod__", "__field__", "C",
    "Self",
    "as", "break", "const", "do", "else", "enum", "extern", "false", "fn",
    "for", "if", "impl", "in", "let", "__log", "loop", "match", "mod", "mut",
    "once", "priv", "pub", "ref", "return", "static", "self", "struct",
    "super", "true", "trait", "type", "unsafe", "use", "while",
    "be", "pure", "yield" >>

\* the preload list of mk_fresh_ident_interner
init_vec == <<
    "_", "anon", "", "unary", "!", "[]", "unary-", "__extensions__", "self",
    "item", "block", "stmt", "pat", "expr", "ty", "ident", "path", "tt",
    "matchers", "str", "arg", "descrim", "__rust_abi", "__rust_stack_shim",
    "main", "<opaque>", "blk", "static", "__foreign_mod__", "__field__", "C",
    "Self",
    "as", "break", "const", "do", "else", "enum", "extern", "false", "fn",
    "for", "if", "impl", "let", "__log", "loop", "match", "mod", "mut",
    "once", "priv", "pub", "ref", "return", "static", "self", "struct",
    "super", "true", "trait", "type", "unsafe", "use", "while", "in",
    "be", "pure", "yield" >>

mk_fresh_ident_interner == StrInterner_prefill(init_vec)

mk_fake_ident_interner == StrInterner_new

\* ------------------------------------------------------------------------
\* token.rs: the task-local interner and the functions over it.
\* tls is the task-local slot: <<>> (None) or <<interner>> (Some).
\* Every function returns the slot after the call and the value returned.
\* ------------------------------------------------------------------------
\* a get_ident_interner that never consults the task-local slot
get_ident_interner_always_fresh(tls) == <<mk_fresh_ident_interner>>

\* a get_ident_interner whose None arm installs the bare interner
get_ident_interner_installs_fake(tls) ==
    IF tls # <<>> THEN tls ELSE <<mk_fake_ident_interner>>

\* the slot after get_ident_interner(); its element is the interner returned
get_ident_interner(tls) ==
    IF tls # <<>> THEN tls ELSE <<mk_fresh_ident_interner>>

\* intern that allocates without consulting the map
intern_always_allocates(tls, str) ==
    LET r == StrInterner_gensym(get_ident_interner(tls)[1], str)
    IN  [tls |-> <<r.i>>, ret |-> r.ret]

intern(tls, str) ==
    LET r == StrInterner_intern(get_ident_interner(tls)[1], str)
    IN  [tls |-> <<r.i>>, ret |-> r.ret]

\* gensym that goes through the map
gensym_interns(tls, str) ==
    LET r == StrInterner_intern(get_ident_interner(tls)[1], str)
    IN  [tls |-> <<r.i>>, ret |-> r.ret]

gensym(tls, str) ==
    LET r == StrInterner_gensym(get_ident_interner(tls)[1], str)
    IN  [tls |-> <<r.i>>, ret |-> r.ret]

\* interner_get that is off by one on the index
interner_get_off_by_one(tls, name) ==
    [tls |-> get_ident_interner(tls),
     ret |-> StrInterner_get(get_ident_interner(tls)[1],
                             IF name > 0 THEN name - 1 ELSE 0)]

interner_get(tls, name) ==
    [tls |-> get_ident_interner(tls),
     ret |-> StrInterner_get(get_ident_interner(tls)[1], name)]

\* ast::ident
Ident(name, ctxt) == [name |-> name, ctxt |-> ctxt]

new_ident(name) == Ident(name, 0)

ident_to_str(tls, id) == interner_get(tls, id.name)

str_to_ident(tls, str) ==
    LET r == intern(tls, str) IN [tls |-> r.tls, ret |-> new_ident(r.ret)]

\* fresh_name that interns the spelling of the source name
fresh_name_interns(tls, src) ==
    intern(tls, StrInterner_get(get_ident_interner(tls)[1], src.name))

fresh_name(tls, src) ==
    LET r == StrInterner_gensym_copy(get_ident_interner(tls)[1], src.name)
    IN  [tls |-> <<r.i>>, ret |-> r.ret]

fresh_mark(tls) == gensym(tls, "mark")

\* ------------------------------------------------------------------------
\* ast_util: the syntax-context table (index 0 EmptyCtxt, 1 IllegalCtxt)
\* ------------------------------------------------------------------------
EmptyCtxt == [tag |-> "EmptyCtxt", mrk |-> 0, name |-> 0, ctxt |-> 0, to |-> 0, tail |-> 0]

IllegalCtxt == [tag |-> "IllegalCtxt", mrk |-> 0, name |-> 0, ctxt |-> 0, to |-> 0, tail |-> 0]

Mark(m, tail) == [tag |-> "Mark", mrk |-> m, name |-> 0, ctxt |-> 0, to |-> 0, tail |-> tail]

Rename(id, to, tail) ==
    [tag |-> "Rename", mrk |-> 0, name |-> id.name, ctxt |-> id.ctxt, to |-> to, tail |-> tail]

new_sctable_internal == <<EmptyCtxt, IllegalCtxt>>

\* index (0-based) of an entry of the table, or Len(table) when absent
idx_of(table, e) ==
    IF \E k \in 1..Len(table) : table[k] = e
    THEN (CHOOSE k \in 1..Len(table) : table[k] = e) - 1
    ELSE Len(table)

\* memoised push: the table after the call and the context returned
new_mark(table, m, tail) ==
    [table |-> IF idx_of(table, Mark(m, tail)) = Len(table)
               THEN Append(table, Mark(m, tail)) ELSE table,
     ret |-> idx_of(table, Mark(m, tail))]

new_rename(table, id, to, tail) ==
    [table |-> IF idx_of(table, Rename(id, to, tail)) = Len(table)
               THEN Append(table, Rename(id, to, tail)) ELSE table,
     ret |-> idx_of(table, Rename(id, to, tail))]

xorPush(marks, mark) ==
    IF Len(marks) > 0 /\ marks[Len(marks)] = mark
    THEN SubSeq(marks, 1, Len(marks) - 1)
    ELSE Append(marks, mark)

RECURSIVE marksof_loop(_, _, _, _)
marksof_loop(table, loopvar, stopname, result) ==
    LET e == table[loopvar + 1] IN
    CASE e.tag = "EmptyCtxt" -> result
      [] e.tag = "Mark" -> marksof_loop(table, e.tail, stopname, xorPush(result, e.mrk))
      [] e.tag = "Rename" -> IF e.to = stopname THEN result
                             ELSE marksof_loop(table, e.tail, stopname, result)
      [] OTHER -> result

marksof(table, ctxt, stopname) == marksof_loop(table, ctxt, stopname, <<>>)

\* the Name an identifier denotes once the marks and renames of its
\* context are accounted for
RECURSIVE mtwt_resolve(_, _)
mtwt_resolve(table, id) ==
    LET e == table[id.ctxt + 1] IN
    CASE e.tag = "EmptyCtxt" -> id.name
      [] e.tag = "Mark" -> mtwt_resolve(table, Ident(id.name, e.tail))
      [] e.tag = "Rename" ->
            LET resolvedfrom == mtwt_resolve(table, Ident(e.name, e.ctxt))
                resolvedthis == mtwt_resolve(table, Ident(id.name, e.tail))
            IN  IF resolvedthis = resolvedfrom
                   /\ marksof(table, e.ctxt, resolvedthis)
                        = marksof(table, e.tail, resolvedthis)
                THEN e.to ELSE resolvedthis
      [] OTHER -> id.name

\* ------------------------------------------------------------------------
\* token.rs: tokens and hygienic token equality
\* ------------------------------------------------------------------------
\* Token: the variant, its binop / nonterminal tag, and its ident and flag
Tok(kind) == [kind |-> kind, sub |-> "", name |-> 0, ctxt |-> 0, flag |-> FALSE]

IDENT(id, is_mod_name) ==
    [kind |-> "IDENT", sub |-> "", name |-> id.name, ctxt |-> id.ctxt, flag |-> is_mod_name]

LIFETIME(id) ==
    [kind |-> "LIFETIME", sub |-> "", name |-> id.name, ctxt |-> id.ctxt, flag |-> FALSE]

\* the ten binop tags
binop == {"PLUS", "MINUS", "STAR", "SLASH", "PERCENT", "CARET", "AND", "OR", "SHL", "SHR"}

\* the eleven nonterminal tags
nonterminal == {"nt_item", "nt_block", "nt_stmt", "nt_pat", "nt_expr", "nt_ty",
                "nt_ident", "nt_attr", "nt_path", "nt_tt", "nt_matchers"}

BINOP(op) == [kind |-> "BINOP", sub |-> op, name |-> 0, ctxt |-> 0, flag |-> FALSE]

BINOPEQ(op) == [kind |-> "BINOPEQ", sub |-> op, name |-> 0, ctxt |-> 0, flag |-> FALSE]

INTERPOLATED(nt) == [kind |-> "INTERPOLATED", sub |-> nt, name |-> 0, ctxt |-> 0, flag |-> FALSE]

\* a token variant whose payload is one ident (LIT_FLOAT, LIT_FLOAT_UNSUFFIXED,
\* LIT_STR, DOC_COMMENT); the type suffix of LIT_FLOAT is left out
TokWithIdent(kind, id) ==
    [kind |-> kind, sub |-> "", name |-> id.name, ctxt |-> id.ctxt, flag |-> FALSE]

tok_ident(t) == Ident(t.name, t.ctxt)

\* can_begin_expr without the BINOP(OR) arm
can_begin_expr_no_binop_or(t) ==
    CASE t.kind \in {"LPAREN", "LBRACE", "LBRACKET", "IDENT", "UNDERSCORE", "TILDE",
                     "LIT_INT", "LIT_UINT", "LIT_INT_UNSUFFIXED", "LIT_FLOAT",
                     "LIT_FLOAT_UNSUFFIXED", "LIT_STR", "POUND", "AT", "NOT",
                     "OROR", "MOD_SEP"} -> TRUE
      [] t.kind = "BINOP" /\ t.sub \in {"MINUS", "STAR", "AND"} -> TRUE
      [] t.kind = "INTERPOLATED"
           /\ t.sub \in {"nt_expr", "nt_ident", "nt_block", "nt_path"} -> TRUE
      [] OTHER -> FALSE

can_begin_expr(t) ==
    CASE t.kind = "LPAREN" -> TRUE
      [] t.kind = "LBRACE" -> TRUE
      [] t.kind = "LBRACKET" -> TRUE
      [] t.kind = "IDENT" -> TRUE
      [] t.kind = "UNDERSCORE" -> TRUE
      [] t.kind = "TILDE" -> TRUE
      [] t.kind = "LIT_INT" -> TRUE
      [] t.kind = "LIT_UINT" -> TRUE
      [] t.kind = "LIT_INT_UNSUFFIXED" -> TRUE
      [] t.kind = "LIT_FLOAT" -> TRUE
      [] t.kind = "LIT_FLOAT_UNSUFFIXED" -> TRUE
      [] t.kind = "LIT_STR" -> TRUE
      [] t.kind = "POUND" -> TRUE
      [] t.kind = "AT" -> TRUE
      [] t.kind = "NOT" -> TRUE
      [] t.kind = "BINOP" /\ t.sub = "MINUS" -> TRUE
      [] t.kind = "BINOP" /\ t.sub = "STAR" -> TRUE
      [] t.kind = "BINOP" /\ t.sub = "AND" -> TRUE
      [] t.kind = "BINOP" /\ t.sub = "OR" -> TRUE
      [] t.kind = "OROR" -> TRUE
      [] t.kind = "MOD_SEP" -> TRUE
      [] t.kind = "INTERPOLATED"
           /\ t.sub \in {"nt_expr", "nt_ident", "nt_block", "nt_path"} -> TRUE
      [] OTHER -> FALSE

is_lit(t) ==
    CASE t.kind = "LIT_INT" -> TRUE
      [] t.kind = "LIT_UINT" -> TRUE
      [] t.kind = "LIT_INT_UNSUFFIXED" -> TRUE
      [] t.kind = "LIT_FLOAT" -> TRUE
      [] t.kind = "LIT_FLOAT_UNSUFFIXED" -> TRUE
      [] t.kind = "LIT_STR" -> TRUE
      [] OTHER -> FALSE

\* mtwt_token_eq without the identifier arm
mtwt_token_eq_structural(table, t1, t2) == t1 = t2

\* mtwt_token_eq whose identifier arm also compares the is_mod_name flags
mtwt_token_eq_flag_sensitive(table, t1, t2) ==
    IF t1 = t2 THEN TRUE
    ELSE IF t1.kind = "IDENT" /\ t2.kind = "IDENT"
         THEN /\ mtwt_resolve(table, tok_ident(t1)) = mtwt_resolve(table, tok_ident(t2))
              /\ t1.flag = t2.flag
         ELSE FALSE

mtwt_token_eq(table, t1, t2) ==
    IF t1 = t2 THEN TRUE
    ELSE IF t1.kind = "IDENT" /\ t2.kind = "IDENT"
         THEN mtwt_resolve(table, tok_ident(t1)) = mtwt_resolve(table, tok_ident(t2))
         ELSE FALSE

\* Keyword::to_ident for the entry whose variant is kw
to_ident(kw) ==
    new_ident(Keyword[CHOOSE k \in 1..Len(Keyword) : Keyword[k].kw = kw].name)

is_keyword(kw, tok) ==
    IF tok.kind = "IDENT" /\ tok.flag = FALSE
    THEN to_ident(kw).name = tok.name
    ELSE FALSE

\* is_any_keyword that forgets the two keywords numbered as special idents
is_any_keyword_range_only(tok) ==
    IF tok.kind = "IDENT" /\ tok.flag = FALSE
    THEN tok.name \in 32..66
    ELSE FALSE

is_any_keyword(tok) ==
    IF tok.kind = "IDENT" /\ tok.flag = FALSE
    THEN tok.name = 8 \/ tok.name = 27 \/ tok.name \in 32..66
    ELSE FALSE

\* is_strict_keyword whose range runs one id too far
is_strict_keyword_through_64(tok) ==
    IF tok.kind = "IDENT" /\ tok.flag = FALSE
    THEN tok.name = 8 \/ tok.name = 27 \/ tok.name \in 32..64
    ELSE FALSE

is_strict_keyword(tok) ==
    IF tok.kind = "IDENT" /\ tok.flag = FALSE
    THEN tok.name = 8 \/ tok.name = 27 \/ tok.name \in 32..63
    ELSE FALSE

is_reserved_keyword(tok) ==
    IF tok.kind = "IDENT" /\ tok.flag = FALSE
    THEN tok.name \in 64..66
    ELSE FALSE

\* test::mark_ident: the table after the call and the marked identifier
mark_ident(table, id, m) ==
    LET r == new_mark(table, m, id.ctxt)
    IN  [table |-> r.table, ret |-> Ident(id.name, r.ret)]

\* ------------------------------------------------------------------------
\* State
\* ------------------------------------------------------------------------
VARIABLES
    tls,      \* the task-local interner slot: <<>> or <<interner>>
    made,     \* number of interners built by mk_fresh_ident_interner
    log,      \* the interner calls made so far, with what each returned
    sctable,  \* the syntax-context table
    cmp,      \* the last mtwt_token_eq call: <<>> or <<[a, b, r]>>
    probe     \* the last token predicate call: <<>> or <<[op, kw, t, r]>>

vars == <<tls, made, log, sctable, cmp, probe>>

\* one recorded call: op, the text involved, the Name involved, and for
\* fresh_name the Name of the source identifier
Call(op, s, n, src) == [op |-> op, s |-> s, n |-> n, src |-> src]

\* 1 when get_ident_interner() takes its None arm and builds an interner
constructed(slot) == IF slot = <<>> THEN 1 ELSE 0

\* Names the callers hold: the ones returned so far and two registry ids
\* (self_ = 8, Struct = 55)
HeldNames == {log[k].n : k \in 1..Len(log)} \cup {8, 55}

\* text of Name n in the slot's interner ("" stands for a Name not issued)
TextOf(slot, n) ==
    IF slot # <<>> /\ n < Len(slot[1].vect) THEN slot[1].vect[n + 1] ELSE ""

IsIssued(slot, n) == slot # <<>> /\ n < Len(slot[1].vect)

Init ==
    /\ tls = <<>>
    /\ made = 0
    /\ log = <<>>
    /\ sctable = new_sctable_internal
    /\ cmp = <<>>
    /\ probe = <<>>

Intern(s) ==
    /\ Len(log) < MaxOps
    /\ LET r == intern(tls, s) IN
         /\ tls' = r.tls
         /\ log' = Append(log, Call("intern", s, r.ret, 0))
    /\ made' = made + constructed(tls)
    /\ UNCHANGED <<sctable, cmp, probe>>

Gensym(s) ==
    /\ Len(log) < MaxOps
    /\ LET r == gensym(tls, s) IN
         /\ tls' = r.tls
         /\ log' = Append(log, Call("gensym", s, r.ret, 0))
    /\ made' = made + constructed(tls)
    /\ UNCHANGED <<sctable, cmp, probe>>

FreshMark ==
    /\ Len(log) < MaxOps
    /\ LET r == fresh_mark(tls) IN
         /\ tls' = r.tls
         /\ log' = Append(log, Call("fresh_mark", "mark", r.ret, 0))
    /\ made' = made + constructed(tls)
    /\ UNCHANGED <<sctable, cmp, probe>>

\* fresh_name(&id) for an identifier whose name the interner has issued
FreshName(n) ==
    /\ Len(log) < MaxOps
    /\ IsIssued(get_ident_interner(tls), n)
    /\ LET r == fresh_name(tls, new_ident(n)) IN
         /\ tls' = r.tls
         /\ log' = Append(log, Call("fresh_name",
                                    TextOf(get_ident_interner(tls), n), r.ret, n))
    /\ made' = made + constructed(tls)
    /\ UNCHANGED <<sctable, cmp, probe>>

\* interner_get(name) / ident_to_str(&id) for an issued name
InternerGet(n) ==
    /\ Len(log) < MaxOps
    /\ IsIssued(get_ident_interner(tls), n)
    /\ LET r == ident_to_str(tls, new_ident(n)) IN
         /\ tls' = r.tls
         /\ log' = Append(log, Call("get", r.ret, n, 0))
    /\ made' = made + constructed(tls)
    /\ UNCHANGED <<sctable, cmp, probe>>

\* mk_fake_ident_interner(): a bare interner of the caller's own, here used
\* for one intern; the task-local slot is not touched
FakeIntern(s) ==
    /\ Len(log) < MaxOps
    /\ log' = Append(log, Call("fake_intern", s,
                               StrInterner_intern(mk_fake_ident_interner, s).ret, 0))
    /\ UNCHANGED <<tls, made, sctable, cmp, probe>>

Next ==
    \/ \E s \in Strings : Intern(s)
    \/ \E s \in Strings : Gensym(s)
    \/ FreshMark
    \/ \E n \in HeldNames : FreshName(n)
    \/ \E n \in HeldNames : InternerGet(n)
    \/ \E s \in Strings : FakeIntern(s)

Spec == Init /\ [][Next]_vars

\* ------------------------------------------------------------------------
\* Hygiene specification: identifiers are made, marked and renamed, and
\* tokens over them are compared
\* ------------------------------------------------------------------------
\* spellings handed to str_to_ident
HygStrings == {"bac"}

\* marks applied by mark_ident (the test's literal)
Marks == {92}

\* names of the identifiers in play: self_ and the ones str_to_ident made
HygNames == {log[k].n : k \in 1..Len(log)} \cup {8}

\* contexts an identifier can carry (never IllegalCtxt)
HygCtxts == (0..(Len(sctable) - 1)) \ {1}

HygIdents == {Ident(n, c) : n \in HygNames, c \in HygCtxts}

HygTokens ==
    {IDENT(id, f) : id \in HygIdents, f \in BOOLEAN}
        \cup {LIFETIME(new_ident(n)) : n \in HygNames}
        \cup {Tok("GT"), Tok("EOF")}

StrToIdent(s) ==
    /\ Len(log) < MaxIdents
    /\ LET r == str_to_ident(tls, s) IN
         /\ tls' = r.tls
         /\ log' = Append(log, Call("intern", s, r.ret.name, 0))
    /\ made' = made + constructed(tls)
    /\ UNCHANGED <<sctable, cmp, probe>>

MarkIdent(id, m) ==
    /\ Len(sctable) < Len(new_sctable_internal) + MaxCtxt
    /\ sctable' = mark_ident(sctable, id, m).table
    /\ UNCHANGED <<tls, made, log, cmp, probe>>

NewRename(id, to, tail) ==
    /\ Len(sctable) < Len(new_sctable_internal) + MaxCtxt
    /\ sctable' = new_rename(sctable, id, to, tail).table
    /\ UNCHANGED <<tls, made, log, cmp, probe>>

MtwtTokenEq(t1, t2) ==
    /\ cmp' = <<[a |-> t1, b |-> t2, r |-> mtwt_token_eq(sctable, t1, t2)]>>
    /\ UNCHANGED <<tls, made, log, sctable, probe>>

NextHyg ==
    \/ \E s \in HygStrings : StrToIdent(s)
    \/ \E id \in HygIdents, m \in Marks : MarkIdent(id, m)
    \/ \E id \in HygIdents, to \in HygNames, tail \in HygCtxts : NewRename(id, to, tail)
    \/ \E t1 \in HygTokens, t2 \in HygTokens : MtwtTokenEq(t1, t2)

SpecHyg == Init /\ [][NextHyg]_vars

\* ------------------------------------------------------------------------
\* Properties of the interner (specification Spec)
\* ------------------------------------------------------------------------
Calls == 1..Len(log)

\* calls that hand out a Name
Allocating == {"intern", "gensym", "fresh_mark", "fresh_name"}

\* C1: two intern calls with equal text return the same Name, whatever
\* calls (gensym or fresh_name on the same text included) ran in between.
Thm_C1 ==
    \A i \in Calls, j \in Calls :
        (log[i].op = "intern" /\ log[j].op = "intern" /\ log[i].s = log[j].s)
            => log[i].n = log[j].n

\* intern(s), then a gensym or fresh_name on the same text, then intern(s)
Wit_C1 ==
    \E i \in Calls, k \in Calls, j \in Calls :
        /\ i < k /\ k < j
        /\ log[i].op = "intern" /\ log[j].op = "intern"
        /\ log[k].op \in {"gensym", "fresh_name"}
        /\ log[i].s = "ghi" /\ log[k].s = "ghi" /\ log[j].s = "ghi"

\* C2: the Name returned by a gensym (or fresh_mark) call is no preloaded
\* Name and is returned by no other intern, gensym, fresh_mark or
\* fresh_name call, earlier or later.
Thm_C2 ==
    \A i \in Calls :
        log[i].op \in {"gensym", "fresh_mark"} =>
            /\ log[i].n >= Len(mk_fresh_ident_interner.vect)
            /\ \A j \in Calls :
                 (j # i /\ log[j].op \in Allocating) => log[j].n # log[i].n

\* fresh_mark, then intern of the seed text, then fresh_mark again
Wit_C2 ==
    /\ Len(log) >= 3
    /\ log[1].op = "fresh_mark"
    /\ log[2].op = "intern" /\ log[2].s = "mark"
    /\ log[3].op = "fresh_mark"

\* C3: at every point, looking up the Name returned by intern(s) or by a
\* gensym(s) call yields s; a recorded lookup of such a Name returned s.
Thm_C3 ==
    \A i \in Calls :
        log[i].op \in {"intern", "gensym"} =>
            /\ IsIssued(tls, log[i].n)
            /\ interner_get(tls, log[i].n).ret = log[i].s
            /\ \A k \in Calls :
                 (k > i /\ log[k].op = "get" /\ log[k].n = log[i].n)
                     => log[k].s = log[i].s

\* gensym("ghi"), another allocation, then a lookup of the gensym'd Name
Wit_C3 ==
    /\ Len(log) >= 3
    /\ log[1].op = "gensym" /\ log[1].s = "ghi"
    /\ log[2].op \in Allocating
    /\ log[3].op = "get" /\ log[3].n = log[1].n /\ log[3].s = "ghi"

\* C4: fresh_name(id) returns a Name other than id.name whose text is the
\* text of id.name, and the text of id.name is what it was before the call.
Thm_C4 ==
    \A k \in Calls :
        log[k].op = "fresh_name" =>
            /\ log[k].n # log[k].src
            /\ IsIssued(tls, log[k].n) /\ IsIssued(tls, log[k].src)
            /\ TextOf(tls, log[k].n) = TextOf(tls, log[k].src)
            /\ TextOf(tls, log[k].src) = log[k].s

\* str_to_ident("ghi") followed by fresh_name of that identifier
Wit_C4 ==
    \E i \in Calls, k \in Calls :
        /\ i < k
        /\ log[i].op = "intern" /\ log[i].s = "ghi"
        /\ log[k].op = "fresh_name" /\ log[k].src = log[i].n
        /\ TextOf(tls, log[k].n) = "ghi"

\* every entry of special_idents and of Keyword
Registry ==
    {[name |-> special_idents[k].name, text |-> special_idents[k].text]
        : k \in 1..Len(special_idents)}
    \cup {[name |-> Keyword[k].name, text |-> Keyword[k].text]
        : k \in 1..Len(Keyword)}

\* C5: once the session interner exists, every registry entry's fixed id
\* is the Name preloading gave its spelling: looking the id up yields the
\* spelling and interning the spelling yields the id, also after later
\* intern / gensym calls.
Thm_C5 ==
    tls # <<>> =>
        \A e \in Registry :
            /\ IsIssued(tls, e.name)
            /\ interner_get(tls, e.name).ret = e.text
            /\ intern(tls, e.text).ret = e.name

\* gensym("self") then intern("self") answered with the fixed id of self_
Wit_C5 ==
    \E i \in Calls, j \in Calls :
        /\ i < j
        /\ log[i].op = "gensym" /\ log[i].s = "self"
        /\ log[j].op = "intern" /\ log[j].s = "self" /\ log[j].n = 8
        /\ TextOf(tls, 55) = "struct" /\ TextOf(tls, 63) = "in"

\* number of distinct strings among the first k entries of the preload list
DistinctUpTo(k) == Cardinality({init_vec[j] : j \in 1..k})

\* 1-based index of the first occurrence of a string in the preload list
FirstIndex(text) ==
    CHOOSE k \in 1..Len(init_vec) :
        init_vec[k] = text /\ \A j \in 1..(k - 1) : init_vec[j] # text

\* the preload list with repeated strings dropped: entry n is the n-th
\* string to occur for the first time
DedupList ==
    [n \in 1..DistinctUpTo(Len(init_vec)) |->
        init_vec[CHOOSE k \in 1..Len(init_vec) :
                    k = FirstIndex(init_vec[k]) /\ DistinctUpTo(k) = n]]

\* every registry entry's spelling is in the preload list and its fixed id is
\* the 0-based position of the spelling in DedupList
RegistryIdIsDedupPosition ==
    \A e \in Registry :
        /\ e.text \in {init_vec[k] : k \in 1..Len(init_vec)}
        /\ e.name = DistinctUpTo(FirstIndex(e.text)) - 1

\* C6 as stated: every registry entry's fixed id is the 0-based position of
\* its spelling in the preload list, and prefill assigns the first
\* Len(init_vec) Names in list order.
Orig_C6 ==
    tls # <<>> =>
        /\ \A e \in Registry : init_vec[e.name + 1] = e.text
        /\ Len(tls[1].vect) >= Len(init_vec)
        /\ \A k \in 1..Len(init_vec) : tls[1].vect[k] = init_vec[k]

\* C6 (amended): every registry entry's fixed id is the 0-based position of
\* its spelling in the preload list with repeated strings dropped ("static"
\* and "self" occur twice and keep ids 27 and 8), and prefill assigns the
\* first Names, one per distinct string, in order of first occurrence.
Thm_C6 ==
    tls # <<>> =>
        /\ RegistryIdIsDedupPosition
        /\ Len(tls[1].vect) >= Len(DedupList)
        /\ SubSeq(tls[1].vect, 1, Len(DedupList)) = DedupList

\* the session interner exists and has grown; "struct" is entry 57 of the
\* list (0-based) but Name 55
Wit_C6 ==
    /\ tls # <<>>
    /\ Len(tls[1].vect) > DistinctUpTo(Len(init_vec))
    /\ init_vec[58] = "struct"
    /\ TextOf(tls, 55) = "struct"
    /\ DistinctUpTo(Len(init_vec)) < Len(init_vec)

\* Names the session interner has issued (all of them once it is built)
IssuedNames == 0..(Len(get_ident_interner(tls)[1].vect) - 1)

StrictIds == {n \in IssuedNames : is_strict_keyword(IDENT(new_ident(n), FALSE))}

ReservedIds == {n \in IssuedNames : is_reserved_keyword(IDENT(new_ident(n), FALSE))}

SpecialIds == {special_idents[k].name : k \in 1..Len(special_idents)}

\* C7 as stated: in the session interner, the strict-keyword ids, the reserved-keyword ids and the
\* special-identifier ids are pairwise disjoint.
Orig_C7 ==
    tls # <<>> =>
    /\ StrictIds \cap ReservedIds = {}
    /\ StrictIds \cap SpecialIds = {}
    /\ ReservedIds \cap SpecialIds = {}

\* C7 (amended): in the session interner, the strict-keyword ids and the reserved-keyword ids are
\* disjoint, the reserved-keyword ids and the special-identifier ids are
\* disjoint, and the strict-keyword ids share exactly 8 (self) and 27
\* (static) with the special-identifier ids.
Thm_C7 ==
    tls # <<>> =>
    /\ StrictIds \cap ReservedIds = {}
    /\ ReservedIds \cap SpecialIds = {}
    /\ StrictIds \cap SpecialIds = {8, 27}

\* the session interner holds "self" at 8 and "static" at 27, and both ids
\* are strict keywords bound to special identifiers
Wit_C7 ==
    /\ tls # <<>>
    /\ TextOf(tls, 8) = "self" /\ TextOf(tls, 27) = "static"
    /\ {8, 27} \subseteq StrictIds \cap SpecialIds
    /\ 64 \in ReservedIds /\ 63 \in StrictIds

\* C8 as stated: every Name returned by intern or gensym resolves to
\* non-empty text.
Orig_C8 ==
    \A i \in Calls :
        log[i].op \in {"intern", "gensym", "fresh_mark"} =>
            /\ IsIssued(tls, log[i].n)
            /\ TextOf(tls, log[i].n) # ""

\* C8 (amended): every Name returned by intern or gensym resolves to text
\* that is non-empty whenever the string passed in was non-empty, and every
\* call leaves each issued Name issued and bound to the same text (the table
\* only grows).
Thm_C8 ==
    [][ /\ \A n \in 0..(Len(init_vec) + MaxOps) :
             IsIssued(tls, n) =>
                 /\ IsIssued(tls', n)
                 /\ TextOf(tls', n) = TextOf(tls, n)
        /\ \A i \in 1..Len(log') :
             log'[i].op \in {"intern", "gensym", "fresh_mark"} =>
                 /\ IsIssued(tls', log'[i].n)
                 /\ (log'[i].s # "" => TextOf(tls', log'[i].n) # "")
      ]_vars

\* a Name returned by intern and one returned by gensym, both still bound
\* to their non-empty text after a further allocation
Wit_C8 ==
    /\ Len(log) >= 3
    /\ log[1].op = "intern" /\ log[1].s = "ghi"
    /\ log[2].op = "gensym" /\ log[2].s = "ghi"
    /\ log[3].op \in Allocating
    /\ TextOf(tls, log[1].n) = "ghi" /\ TextOf(tls, log[2].n) = "ghi"

\* the slot holds an interner that starts with the preload
Preloaded(slot) ==
    /\ slot # <<>>
    /\ slot[1] # mk_fake_ident_interner
    /\ Len(slot[1].vect) >= Len(mk_fresh_ident_interner.vect)
    /\ SubSeq(slot[1].vect, 1, Len(mk_fresh_ident_interner.vect))
         = mk_fresh_ident_interner.vect
    /\ \A e \in DOMAIN mk_fresh_ident_interner.map :
         e \in DOMAIN slot[1].map /\ slot[1].map[e] = mk_fresh_ident_interner.map[e]

\* interner j is interner i with entries added: no Name and no map entry of
\* i is lost or rebound
Extends(j, i) ==
    /\ Len(j.vect) >= Len(i.vect)
    /\ SubSeq(j.vect, 1, Len(i.vect)) = i.vect
    /\ \A e \in DOMAIN i.map : e \in DOMAIN j.map /\ j.map[e] = i.map[e]

\* C12: the first access builds and preloads the session interner, once, and
\* stores it; every later access works on that stored interner, so nothing
\* is built again, every Name handed out stays issued, and an intern call on
\* an earlier text returns the earlier Name; the slot never holds the bare
\* interner of mk_fake_ident_interner.
Thm_C12 ==
    [][ /\ (tls = <<>> /\ log' # log /\ log'[Len(log')].op # "fake_intern")
             => (made' = 1 /\ Preloaded(tls'))
        /\ tls # <<>>
             => (made' = made /\ made = 1 /\ tls' # <<>> /\ Extends(tls'[1], tls[1]))
        /\ tls' # <<>> => Preloaded(tls')
        /\ log'[Len(log')].op = "fake_intern" => tls' = tls
        /\ \A i \in 1..Len(log') :
             /\ log'[i].op \in Allocating => IsIssued(tls', log'[i].n)
             /\ log'[i].op = "intern" => intern(tls', log'[i].s).ret = log'[i].n
      ]_vars

\* intern("ghi") builds the interner; after a call on a bare interner, a
\* second intern("ghi") is answered by the same, once-built interner
Wit_C12 ==
    /\ Len(log) >= 3
    /\ log[1].op = "intern" /\ log[1].s = "ghi"
    /\ log[2].op = "fake_intern"
    /\ log[3].op = "intern" /\ log[3].s = "ghi" /\ log[3].n = log[1].n
    /\ made = 1
    /\ Preloaded(tls)

\* ------------------------------------------------------------------------
\* Properties of hygienic token equality (specification SpecHyg)
\* ------------------------------------------------------------------------
\* C9: mtwt_token_eq returned true exactly when the two tokens are
\* identical, or both are IDENT tokens whose identifiers resolve to the same
\* Name; in particular a token compared with itself gives true.
Thm_C9 ==
    cmp # <<>> =>
        LET c == cmp[1] IN
        /\ c.r <=> \/ c.a = c.b
                   \/ /\ c.a.kind = "IDENT" /\ c.b.kind = "IDENT"
                      /\ mtwt_resolve(sctable, tok_ident(c.a))
                           = mtwt_resolve(sctable, tok_ident(c.b))
        /\ (c.a = c.b => c.r)

\* two IDENT tokens of different names found equal (one is renamed to the
\* other)
Wit_C9 ==
    /\ cmp # <<>>
    /\ cmp[1].a.kind = "IDENT" /\ cmp[1].b.kind = "IDENT"
    /\ cmp[1].a.name # cmp[1].b.name
    /\ cmp[1].r

\* the context is a non-empty chain of marks ending in the empty context
RECURSIVE OnlyMarks(_, _)
OnlyMarks(table, c) ==
    /\ table[c + 1].tag = "Mark"
    /\ \/ table[c + 1].tail = 0
       \/ OnlyMarks(table, table[c + 1].tail)

\* C10: an IDENT token whose context carries only marks is found equal to
\* the IDENT token of the same name with the empty context, whatever the
\* two is_mod_name flags are.
Thm_C10 ==
    cmp # <<>> =>
        LET c == cmp[1] IN
        (/\ c.a.kind = "IDENT" /\ c.b.kind = "IDENT"
         /\ c.a.name = c.b.name
         /\ c.a.ctxt = 0
         /\ OnlyMarks(sctable, c.b.ctxt)) => c.r

\* the test's case: "bac" unmarked with the flag set against "bac" under
\* mark 92 with the flag clear
Wit_C10 ==
    /\ cmp # <<>>
    /\ cmp[1].a.kind = "IDENT" /\ cmp[1].b.kind = "IDENT"
    /\ TextOf(tls, cmp[1].a.name) = "bac"
    /\ cmp[1].a.name = cmp[1].b.name
    /\ cmp[1].a.ctxt = 0 /\ cmp[1].a.flag
    /\ sctable[cmp[1].b.ctxt + 1] = Mark(92, 0) /\ ~cmp[1].b.flag
    /\ cmp[1].r

\* ------------------------------------------------------------------------
\* Token specification: a token is drawn, and the token predicates are
\* applied to it
\* ------------------------------------------------------------------------
\* Names an IDENT token can carry: the preloaded ones and the ones the
\* session interner can issue within the bound
TokNames == 0..(Len(mk_fresh_ident_interner.vect) + MaxOps - 1)

\* Names carried by the other tokens with an ident payload
PayloadNames == {0, 8, Len(mk_fresh_ident_interner.vect)}

\* token variants without payload, and the integer literals (whose value
\* and type suffix are left out)
PlainKinds ==
    {"EQ", "LT", "LE", "EQEQ", "NE", "GE", "GT", "ANDAND", "OROR", "NOT", "TILDE",
     "AT", "DOT", "DOTDOT", "COMMA", "SEMI", "COLON", "MOD_SEP", "RARROW",
     "LARROW", "DARROW", "FAT_ARROW", "LPAREN", "RPAREN", "LBRACKET", "RBRACKET",
     "LBRACE", "RBRACE", "POUND", "DOLLAR", "UNDERSCORE", "EOF",
     "LIT_INT", "LIT_UINT", "LIT_INT_UNSUFFIXED"}

IdentKinds == {"LIT_FLOAT", "LIT_FLOAT_UNSUFFIXED", "LIT_STR", "DOC_COMMENT"}

AllTokens ==
    {Tok(k) : k \in PlainKinds}
        \cup {BINOP(b) : b \in binop}
        \cup {BINOPEQ(b) : b \in binop}
        \cup {INTERPOLATED(nt) : nt \in nonterminal}
        \cup {TokWithIdent(k, new_ident(n)) : k \in IdentKinds, n \in PayloadNames}
        \cup {LIFETIME(new_ident(n)) : n \in PayloadNames}
        \cup {IDENT(new_ident(n), f) : n \in TokNames, f \in BOOLEAN}

Keywords == {Keyword[k].kw : k \in 1..Len(Keyword)}

Probe(op, kw, t, r) == [op |-> op, kw |-> kw, t |-> t, r |-> r]

InitTok ==
    /\ tls = <<>>
    /\ made = 0
    /\ log = <<>>
    /\ sctable = new_sctable_internal
    /\ cmp = <<>>
    /\ probe \in {<<Probe("token", "", t, FALSE)>> : t \in AllTokens}

CanBeginExpr ==
    /\ probe' = <<Probe("can_begin_expr", "", probe[1].t, can_begin_expr(probe[1].t))>>
    /\ UNCHANGED <<tls, made, log, sctable, cmp>>

IsKeyword(kw) ==
    /\ probe' = <<Probe("is_keyword", kw, probe[1].t, is_keyword(kw, probe[1].t))>>
    /\ UNCHANGED <<tls, made, log, sctable, cmp>>

IsAnyKeyword ==
    /\ probe' = <<Probe("is_any_keyword", "", probe[1].t, is_any_keyword(probe[1].t))>>
    /\ UNCHANGED <<tls, made, log, sctable, cmp>>

IsStrictKeyword ==
    /\ probe' = <<Probe("is_strict_keyword", "", probe[1].t, is_strict_keyword(probe[1].t))>>
    /\ UNCHANGED <<tls, made, log, sctable, cmp>>

IsReservedKeyword ==
    /\ probe' = <<Probe("is_reserved_keyword", "", probe[1].t,
                        is_reserved_keyword(probe[1].t))>>
    /\ UNCHANGED <<tls, made, log, sctable, cmp>>

NextTok ==
    \/ CanBeginExpr
    \/ \E kw \in Keywords : IsKeyword(kw)
    \/ IsAnyKeyword
    \/ IsStrictKeyword
    \/ IsReservedKeyword

SpecTok == InitTok /\ [][NextTok]_vars

\* ------------------------------------------------------------------------
\* Properties of the token predicates (specification SpecTok)
\* ------------------------------------------------------------------------
\* the tokens C11 lists as able to begin an expression, BINOP(OR) left out
ListedBeginners ==
    {t \in AllTokens :
        \/ is_lit(t)
        \/ t.kind \in {"IDENT", "UNDERSCORE", "LBRACE", "LPAREN", "LBRACKET",
                       "TILDE", "NOT", "POUND", "AT", "MOD_SEP", "OROR"}
        \/ t \in {BINOP("MINUS"), BINOP("STAR"), BINOP("AND")}
        \/ t \in {INTERPOLATED("nt_ident"), INTERPOLATED("nt_block"),
                  INTERPOLATED("nt_path"), INTERPOLATED("nt_expr")}}

\* C11 as stated: can_begin_expr(t) is true exactly for the listed tokens
\* (BINOP only for minus, star and and) and false for every other token.
Orig_C11 ==
    probe[1].op = "can_begin_expr" =>
        (probe[1].r <=> probe[1].t \in ListedBeginners)

\* C11 (amended): can_begin_expr(t) is true exactly for the listed tokens
\* and for BINOP(OR), and false for every other token.
Thm_C11 ==
    probe[1].op = "can_begin_expr" =>
        (probe[1].r <=> probe[1].t \in ListedBeginners \cup {BINOP("OR")})

\* can_begin_expr was applied to the token `|` and returned true
Wit_C11 ==
    /\ probe[1].op = "can_begin_expr"
    /\ probe[1].t = BINOP("OR")
    /\ probe[1].r

StrictKeywords == {Keyword[k].kw : k \in {j \in 1..Len(Keyword) : Keyword[j].strict}}

ReservedKeywords == {Keyword[k].kw : k \in {j \in 1..Len(Keyword) : ~Keyword[j].strict}}

\* C13: for the probed token t, is_strict_keyword(t) holds iff is_keyword(kw, t)
\* holds for some strict keyword, is_reserved_keyword(t) iff it holds for some
\* reserved keyword, is_any_keyword(t) iff exactly one of the two holds, and
\* all four predicates are false when t is an IDENT with the is_mod_name flag
\* set or is no IDENT at all.
Thm_C13 ==
    LET t == probe[1].t
        strict == \E kw \in StrictKeywords : is_keyword(kw, t)
        reserved == \E kw \in ReservedKeywords : is_keyword(kw, t)
        plain == t.kind = "IDENT" /\ ~t.flag
    IN  /\ probe[1].op = "is_strict_keyword" => (probe[1].r <=> strict)
        /\ probe[1].op = "is_reserved_keyword" => (probe[1].r <=> reserved)
        /\ probe[1].op = "is_any_keyword" => (probe[1].r <=> (strict # reserved))
        /\ (probe[1].op \in {"is_keyword", "is_strict_keyword",
                             "is_reserved_keyword", "is_any_keyword"} /\ ~plain)
             => ~probe[1].r
        /\ probe[1].op = "is_keyword"
             => (probe[1].r <=> (plain /\ t.name = to_ident(probe[1].kw).name))

\* is_any_keyword answered true for the plain identifier `self` (Name 8, a
\* strict keyword numbered among the special idents)
Wit_C13 ==
    /\ probe[1].op = "is_any_keyword"
    /\ probe[1].t = IDENT(new_ident(8), FALSE)
    /\ probe[1].r
    /\ is_keyword("Self", probe[1].t)
    /\ is_strict_keyword(probe[1].t) /\ ~is_reserved_keyword(probe[1].t)
    /\ ~is_any_keyword(IDENT(new_ident(8), TRUE))

====
